---- MODULE Spec2Model ----
(***************************************************************************)
(* Model of the book scraper of api/index.py: the three site adapters      *)
(* (ArkScraper, NorliScraper, AdlibrisScraper), BaseScraper.fetch_html,    *)
(* scrape_book_data, RequestHandler.do_GET and the command-line entry.     *)
(*                                                                         *)
(* Text is a sequence of tokens.  A token is one character, or a fixed     *)
(* chunk of characters that no string operation of the program splits      *)
(* (" resultat:", "Produkter (", "treff", a URL origin, an author name).   *)
(* An optional value (a DOM element that may be missing, an attribute) is  *)
(* the empty tuple when absent and a one-element tuple when present.       *)
(***************************************************************************)
EXTENDS Integers, Sequences, FiniteSets, TLC

\* ------------------------------------------------------------------ bounds

\* Longest price text enumerated exhaustively over PriceAlphabet.
MaxPriceLen == 3
\* Number of HTTP requests the server handles in a run of the model.
MaxRequests == 2
\* Number of query parameters of a request.
MaxParams == 1
\* Wall-clock readings datetime.now() may give: 0..MaxTime.
MaxTime == 1

\* ------------------------------------------------------------ optionals

None == <<>>
Some(x) == <<x>>
IsSome(o) == Len(o) = 1
Val(o) == o[1]

\* ------------------------------------------------------- str operations

IsSpace(c) == c = " "

DecimalDigit == {"0", "1", "2", "3", "4", "5", "6", "7", "8", "9"}

\* Characters for which str.isdigit() is true and int() raises ValueError:
\* "sup2" stands for U+00B2 SUPERSCRIPT TWO.
NonDecimalDigit == {"sup2"}

DigitValue(c) ==
    CASE c = "0" -> 0 [] c = "1" -> 1 [] c = "2" -> 2 [] c = "3" -> 3
      [] c = "4" -> 4 [] c = "5" -> 5 [] c = "6" -> 6 [] c = "7" -> 7
      [] c = "8" -> 8 [] c = "9" -> 9

RECURSIVE str_lstrip(_)
str_lstrip(s) ==
    IF Len(s) > 0 /\ IsSpace(Head(s)) THEN str_lstrip(Tail(s)) ELSE s

RECURSIVE str_rstrip(_)
str_rstrip(s) ==
    IF Len(s) > 0 /\ IsSpace(s[Len(s)])
    THEN str_rstrip(SubSeq(s, 1, Len(s) - 1))
    ELSE s

\* str.strip()
str_strip(s) == str_rstrip(str_lstrip(s))

\* str.replace(old, ''): every non-overlapping occurrence, left to right.
RECURSIVE str_remove(_, _)
str_remove(s, old) ==
    IF Len(s) < Len(old) THEN s
    ELSE IF SubSeq(s, 1, Len(old)) = old
         THEN str_remove(SubSeq(s, Len(old) + 1, Len(s)), old)
         ELSE <<Head(s)>> \o str_remove(Tail(s), old)

\* old in s
str_contains(s, sub) ==
    \E i \in 1..(Len(s) - Len(sub) + 1) : SubSeq(s, i, i + Len(sub) - 1) = sub

RECURSIVE collapse_spaces(_)
collapse_spaces(s) ==
    IF Len(s) < 2 THEN s
    ELSE IF IsSpace(s[1]) /\ IsSpace(s[2])
         THEN collapse_spaces(Tail(s))
         ELSE <<Head(s)>> \o collapse_spaces(Tail(s))

\* ' '.join(s.split())
join_split(s) == collapse_spaces(str_strip(s))

\* str.isdigit()
str_isdigit(s) ==
    /\ Len(s) > 0
    /\ \A i \in 1..Len(s) : s[i] \in DecimalDigit \cup NonDecimalDigit

\* int(s) raises ValueError (s already satisfies isdigit where it is called)
int_raises(s) == \E i \in 1..Len(s) : s[i] \notin DecimalDigit

RECURSIVE int_value(_)
int_value(s) ==
    IF Len(s) = 0 THEN 0
    ELSE 10 * int_value(SubSeq(s, 1, Len(s) - 1)) + DigitValue(s[Len(s)])

\* -------------------------------------------------------------- literals

DASH == <<"-">>
COMMA_DASH == <<",", "-">>
ZERO_TEXT == <<"0">>
ONE_RESULTAT == <<"1", " resultat:">>
PRODUKTER_1 == <<"Produkter (", "1", ")">>
ONE_TREFF == <<"1", " ", "treff">>
ARK_ORIGIN == <<"https://www.ark.no">>
NORLI_ORIGIN == <<"https://www.norli.no">>
ADLIBRIS_ORIGIN == <<"https://www.adlibris.com">>

SENTINEL == [title |-> DASH, authors |-> DASH, PRICE |-> 0, PRODUCT_URL |-> DASH]

\* Outcome of a block of code: it returns a value or raises an Exception.
Return(v) == [raised |-> FALSE, value |-> Some(v)]
Raise == [raised |-> TRUE, value |-> None]

\* int(price) if price.isdigit() else 0
price_to_int(price) ==
    IF str_isdigit(price)
    THEN (IF int_raises(price) THEN Raise ELSE Return(int_value(price)))
    ELSE Return(0)

\* price_span.text.strip().replace(',-', '').strip()
clean_price(text) == str_strip(str_remove(str_strip(text), COMMA_DASH))

\* ------------------------------------------------------------ ArkScraper

ArkPrecondition(page) ==
    IsSome(page.h1) /\ str_contains(Val(page.h1), ONE_RESULTAT)

ArkTitle(page) == IF IsSome(page.h3) THEN str_strip(Val(page.h3)) ELSE DASH

ArkAuthors(page) ==
    IF IsSome(page.authors_div) THEN str_strip(Val(page.authors_div)) ELSE DASH

ArkPriceText(page) ==
    IF IsSome(page.price_span) THEN clean_price(Val(page.price_span)) ELSE ZERO_TEXT

ArkProductUrl(page) ==
    IF /\ IsSome(page.price_span)
       /\ IsSome(page.next_link)
       /\ IsSome(Val(page.next_link).href)
    THEN ARK_ORIGIN \o Val(Val(page.next_link).href)
    ELSE <<>>

\* The body of the try block of ArkScraper.parse_html.
ArkTry(page) ==
    IF ~ArkPrecondition(page) THEN Return(SENTINEL)
    ELSE LET price == price_to_int(ArkPriceText(page))
             url == ArkProductUrl(page)
         IN IF price.raised THEN Raise
            ELSE Return([title |-> ArkTitle(page),
                         authors |-> ArkAuthors(page),
                         PRICE |-> Val(price.value),
                         PRODUCT_URL |-> IF url # <<>> THEN url ELSE DASH])

ArkParseHtml(page) ==
    IF ArkTry(page).raised THEN Return(SENTINEL) ELSE ArkTry(page)

\* ---------------------------------------------------------- NorliScraper

NorliPrecondition(page) ==
    IsSome(page.stats_span) /\ str_strip(Val(page.stats_span)) = PRODUKTER_1

\* product_div.find('a')[attr]: KeyError when the attribute is missing.
NorliAttr(page, attr) ==
    LET a == Val(page.product_div).a
    IN IF ~IsSome(a) THEN Return(DASH)
       ELSE IF IsSome(Val(a)[attr]) THEN Return(Val(Val(a)[attr]))
       ELSE Raise

NorliAuthors(page) ==
    IF IsSome(page.authors_div) THEN str_strip(Val(page.authors_div)) ELSE DASH

NorliPriceText(page) ==
    IF IsSome(page.price_span) THEN clean_price(Val(page.price_span)) ELSE ZERO_TEXT

NorliProductUrl(href) == IF href # DASH THEN NORLI_ORIGIN \o href ELSE DASH

\* The body of the try block of NorliScraper.parse_html.
NorliTry(page) ==
    IF ~NorliPrecondition(page) THEN Return(SENTINEL)
    ELSE IF ~IsSome(page.product_div) THEN Return(SENTINEL)
    ELSE LET title == NorliAttr(page, "aria_label")
             href == NorliAttr(page, "href")
             price == price_to_int(NorliPriceText(page))
         IN IF title.raised \/ href.raised \/ price.raised THEN Raise
            ELSE Return([title |-> Val(title.value),
                         authors |-> NorliAuthors(page),
                         PRICE |-> Val(price.value),
                         PRODUCT_URL |-> NorliProductUrl(Val(href.value))])

\* parse_html without its except clause.
NorliParseUnguarded(page) == NorliTry(page)

NorliParseHtml(page) ==
    IF NorliTry(page).raised THEN Return(SENTINEL) ELSE NorliTry(page)

\* ------------------------------------------------------- AdlibrisScraper

AdlibrisPrecondition(page) ==
    IsSome(page.result_amount) /\ join_split(Val(page.result_amount)) = ONE_TREFF

AdlibrisTitle(w) ==
    IF IsSome(w.title_link) THEN join_split(Val(w.title_link).text) ELSE DASH

AdlibrisAuthors(w) ==
    IF IsSome(w.author_link) THEN join_split(Val(w.author_link)) ELSE DASH

AdlibrisPriceText(w) ==
    IF IsSome(w.price_div) /\ IsSome(Val(w.price_div).span)
    THEN LET price_text ==
                 str_strip(str_remove(join_split(Val(Val(w.price_div).span)),
                                      COMMA_DASH))
         IN IF str_isdigit(price_text) THEN price_text ELSE ZERO_TEXT
    ELSE ZERO_TEXT

AdlibrisProductUrl(w) ==
    IF IsSome(w.title_link) /\ IsSome(Val(w.title_link).href)
    THEN ADLIBRIS_ORIGIN \o Val(Val(w.title_link).href)
    ELSE DASH

\* The body of the try block of AdlibrisScraper.parse_html; writable tells
\* whether open('adlibris.html', 'w') and the write succeed.
AdlibrisTry(page, writable) ==
    IF ~writable THEN Raise
    ELSE IF ~AdlibrisPrecondition(page) THEN Return(SENTINEL)
    ELSE IF ~IsSome(page.product_wrapper) THEN Return(SENTINEL)
    ELSE LET w == Val(page.product_wrapper)
             price == price_to_int(AdlibrisPriceText(w))
         IN IF price.raised THEN Raise
            ELSE Return([title |-> AdlibrisTitle(w),
                         authors |-> AdlibrisAuthors(w),
                         PRICE |-> Val(price.value),
                         PRODUCT_URL |-> AdlibrisProductUrl(w)])

AdlibrisParseHtml(page, writable) ==
    IF AdlibrisTry(page, writable).raised
    THEN Return(SENTINEL)
    ELSE AdlibrisTry(page, writable)

\* ---------------------------------------------------------------- pages

Opt(S) == {None} \cup {Some(x) : x \in S}

RECURSIVE DigitsOf(_)
\* The decimal text of a result count, as the sites print it.
DigitsOf(n) ==
    LET d == CHOOSE c \in DecimalDigit : DigitValue(c) = n % 10
    IN IF n < 10 THEN <<d>> ELSE DigitsOf(n \div 10) \o <<d>>

\* Result counts a search page may show.
ResultCounts == {0, 1, 2, 11}

\* Text of the elements the adapters read their precondition from.
ArkHeader(n) == DigitsOf(n) \o <<" resultat:">>
NorliStats(n) == <<" ", "Produkter (">> \o DigitsOf(n) \o <<")", " ">>
AdlibrisAmount(n) == <<" ">> \o DigitsOf(n) \o <<" ", " ", "treff", " ">>

T_Foo == <<"F", "o", "o">>
T_Foobar == <<" ", "F", "o", "o", "b", "a", "r", " ">>
TitleTexts == {T_Foo, T_Foobar}

A_JaneJohn == <<"Jane Doe", ",", " ", "John Smith">>
A_John == <<"John Smith">>
AuthorTexts == {A_JaneJohn, A_John}

Hrefs == {<<"/p/1">>}

P_349 == <<"3", "4", "9", ",", "-">>
P_Padded == <<" ", "3", "4", "9", ",", "-", " ">>
P_NA == <<"N", "/", "A">>
P_Empty == <<>>
P_Sup2 == <<"sup2", ",", "-">>
ExamplePriceTexts == {P_349, P_Padded, P_NA, P_Empty, P_Sup2}

PriceAlphabet == {"3", "9", ",", "-", " ", "sup2"}

RECURSIVE TextsUpTo(_, _)
\* Every text over alphabet of at most n tokens.
TextsUpTo(alphabet, n) ==
    IF n = 0 THEN {<<>>}
    ELSE LET shorter == TextsUpTo(alphabet, n - 1)
         IN shorter \cup {<<c>> \o t : c \in alphabet, t \in shorter}

BoundedPriceTexts == TextsUpTo(PriceAlphabet, MaxPriceLen)

ArkLinks == {None, Some([href |-> None])} \cup {Some([href |-> Some(h)]) : h \in Hrefs}

ArkPages(counts, headers, h3s, authors, prices, links) ==
    {[results |-> n,
      h1 |-> IF hdr THEN Some(ArkHeader(n)) ELSE None,
      h3 |-> t, authors_div |-> a, price_span |-> p, next_link |-> l] :
        n \in counts, hdr \in headers, t \in h3s, a \in authors,
        p \in prices, l \in links}

NorliAnchors ==
    {None} \cup {Some([aria_label |-> t, href |-> h]) :
                    t \in Opt(TitleTexts), h \in Opt(Hrefs)}

NorliProductDivs == {None} \cup {Some([a |-> a]) : a \in NorliAnchors}

NorliPages(counts, headers, divs, authors, prices) ==
    {[results |-> n,
      stats_span |-> IF hdr THEN Some(NorliStats(n)) ELSE None,
      product_div |-> d, authors_div |-> a, price_span |-> p] :
        n \in counts, hdr \in headers, d \in divs, a \in authors, p \in prices}

AdlibrisTitleLinks ==
    {None} \cup {Some([text |-> t, href |-> h]) : t \in TitleTexts, h \in Opt(Hrefs)}

AdlibrisPriceDivs(prices) == {None} \cup {Some([span |-> p]) : p \in Opt(prices)}

AdlibrisWrappers(links, authors, pricedivs) ==
    {None} \cup {Some([title_link |-> l, author_link |-> a, price_div |-> d]) :
                    l \in links, a \in authors, d \in pricedivs}

AdlibrisPages(counts, headers, wrappers) ==
    {[results |-> n,
      result_amount |-> IF hdr THEN Some(AdlibrisAmount(n)) ELSE None,
      product_wrapper |-> w] :
        n \in counts, hdr \in headers, w \in wrappers}

\* Pages handed to parse_html on its own: every shape of the page with the
\* example price texts, and every bounded price text on a complete page.
ArkParsePages ==
    ArkPages(ResultCounts, BOOLEAN, Opt(TitleTexts), Opt({A_JaneJohn}),
             Opt(ExamplePriceTexts), ArkLinks)
    \cup ArkPages({1}, {TRUE}, {Some(T_Foo)}, {Some(A_John)},
                  {Some(p) : p \in BoundedPriceTexts},
                  {Some([href |-> Some(h)]) : h \in Hrefs})

NorliParsePages ==
    NorliPages(ResultCounts, BOOLEAN, NorliProductDivs, Opt({A_JaneJohn}),
               Opt(ExamplePriceTexts))
    \cup NorliPages({1}, {TRUE},
                    {Some([a |-> Some([aria_label |-> Some(T_Foo), href |-> Some(h)])]) :
                        h \in Hrefs},
                    {Some(A_John)}, {Some(p) : p \in BoundedPriceTexts})

AdlibrisParsePages ==
    AdlibrisPages(ResultCounts, BOOLEAN,
                  AdlibrisWrappers(AdlibrisTitleLinks, Opt({A_JaneJohn}),
                                   AdlibrisPriceDivs(ExamplePriceTexts)))
    \cup AdlibrisPages({1}, {TRUE},
                       AdlibrisWrappers({Some([text |-> T_Foo, href |-> Some(h)]) :
                                            h \in Hrefs},
                                        {Some(A_John)},
                                        {Some([span |-> Some(p)]) :
                                            p \in BoundedPriceTexts}) \ {None})

\* Pages the renderer may return during a scrape.
ArkScrapePages ==
    ArkPages({2}, {TRUE}, {Some(T_Foo)}, {Some(A_John)}, {Some(P_349)},
             {Some([href |-> Some(h)]) : h \in Hrefs})
    \cup ArkPages({1}, {TRUE}, {Some(t) : t \in TitleTexts},
                  {Some(a) : a \in AuthorTexts}, {Some(P_349)},
                  {Some([href |-> Some(h)]) : h \in Hrefs})

NorliScrapePages ==
    NorliPages({2}, {TRUE},
               {Some([a |-> Some([aria_label |-> Some(T_Foo), href |-> Some(h)])]) :
                   h \in Hrefs},
               {Some(A_John)}, {Some(P_349)})
    \cup NorliPages({1}, {TRUE},
                    {Some([a |-> Some([aria_label |-> Some(t), href |-> Some(h)])]) :
                        t \in TitleTexts, h \in Hrefs},
                    {Some(a) : a \in AuthorTexts}, {Some(P_349)})

AdlibrisScrapePages ==
    AdlibrisPages({2}, {TRUE},
                  AdlibrisWrappers({Some([text |-> T_Foo, href |-> Some(h)]) :
                                       h \in Hrefs},
                                   {Some(A_John)},
                                   {Some([span |-> Some(P_349)])}) \ {None})
    \cup AdlibrisPages({1}, {TRUE},
                       AdlibrisWrappers({Some([text |-> t, href |-> Some(h)]) :
                                            t \in TitleTexts, h \in Hrefs},
                                        {Some(a) : a \in AuthorTexts},
                                        {Some([span |-> Some(P_349)])}) \ {None})

\* ---------------------------------------------------------------- state

\* sites of scrape_book_data, in the order the dict is written.
sites == <<"ark.no", "norli.no", "adlibris.no">>
SiteSet == {sites[k] : k \in 1..Len(sites)}

VARIABLES
    mode,           \* "boot", "server", "cli" or "exit": where __main__ is
    pc,             \* position of the running request or scrape
    req,            \* the request do_GET is handling, if any
    response,       \* the response dict of the running scrape_book_data
    i,              \* index into sites of the loop of scrape_book_data
    url,            \* self.url of the current scraper
    driver,         \* fetch_html's local driver: "none", "live" or "quit"
    live,           \* number of browser processes started and not yet quit
    html,           \* html_content returned by fetch_html, if any
    exc,            \* an exception is propagating out of fetch_html
    fetched,        \* per site, what fetch_html and the file write did
    rendered,       \* driver.get calls made for the current request
    sent,           \* the HTTP answer sent for the current request, if any
    served,         \* number of requests handled so far
    files,          \* isbn/<isbn>.json files written by save_to_json
    adlibris_html,  \* content of adlibris.html, if written
    p_site,         \* parse_html called on its own: the adapter
    p_page,         \* ... its html_content
    p_writable,     \* ... whether adlibris.html can be written
    p_out,          \* ... the outcome of the call, once made
    t_dir,          \* tsv.py: os.listdir(directory), each entry with its content
    t_pc,           \* tsv.py: position of process_json_files
    t_k,            \* tsv.py: index of the directory entry the loop is at
    data_rows,      \* tsv.py: data_rows of process_json_files
    t_out,          \* tsv.py: the rows written to output_file, if written
    b_file,         \* batch.py: the lines of the ISBN file
    b_pc,           \* batch.py: position of process_isbn_file
    b_k,            \* batch.py: index of the line the loop is at
    b_events        \* batch.py: the subprocess runs and sleeps made, in order

scrapeVars == <<response, i, url, driver, html, exc, fetched>>
serverVars == <<mode, req, rendered, sent, served, files>>
parseVars == <<p_site, p_page, p_writable, p_out>>
tsvVars == <<t_dir, t_pc, t_k, data_rows, t_out>>
batchVars == <<b_file, b_pc, b_k, b_events>>
toolVars == <<tsvVars, batchVars>>
vars == <<scrapeVars, serverVars, pc, live, adlibris_html, parseVars, toolVars>>

Isbns == {"9788202"}
CliIsbns == {"9788203"}

NotVisited == [kind |-> "none", page |-> None, writable |-> TRUE]

SENTINEL_ENTRY == [TITLE |-> DASH, AUTHORS |-> DASH, PRICE |-> 0, PRODUCT_URL |-> DASH]

\* The dict literal stored under response["SITES"][site_domain].
site_entry(result) ==
    [TITLE |-> result.title, AUTHORS |-> result.authors,
     PRICE |-> result.PRICE, PRODUCT_URL |-> result.PRODUCT_URL]

EmptyDict == [s \in {} |-> SENTINEL_ENTRY]

\* A store that writes the value under every key of the dict.
dict_set_all(d, key, value) == [k \in DOMAIN d \cup {key} |-> value]

\* d[key] = value
dict_set(d, key, value) ==
    [k \in DOMAIN d \cup {key} |-> IF k = key THEN value ELSE d[k]]

initial_response(isbn) ==
    [MESSAGE |-> "Data fetch initiated", ISBN |-> isbn,
     TIMESTAMP |-> <<>>, SITES |-> EmptyDict]

\* datetime.now().strftime("%Y-%m-%d %H:%M:%S")
strftime(t) == <<"2026-11-02 00:00:0">> \o DigitsOf(t)

\* A returned response whose MESSAGE is left as it was initialised.
complete_response_keep_message(resp, t) ==
    [resp EXCEPT !.TIMESTAMP = strftime(t)]

complete_response(resp, t) ==
    [resp EXCEPT !.MESSAGE = "Data fetched successfully",
                 !.TIMESTAMP = strftime(t)]

url_builder(site, isbn) ==
    CASE site = "ark.no" -> <<"https://www.ark.no/search?text=", isbn>>
      [] site = "norli.no" -> <<"https://www.norli.no/search?query=", isbn>>
      [] site = "adlibris.no" -> <<"https://www.adlibris.com/no/sok?q=", isbn>>

ScrapePages(site) ==
    CASE site = "ark.no" -> ArkScrapePages
      [] site = "norli.no" -> NorliScrapePages
      [] site = "adlibris.no" -> AdlibrisScrapePages

\* scraper.parse_html(html_content) of the scraper class registered for site.
parse_html(site, page, writable) ==
    CASE site = "ark.no" -> ArkParseHtml(page)
      [] site = "norli.no" -> NorliParseHtml(page)
      [] site = "adlibris.no" -> AdlibrisParseHtml(page, writable)

\* The loop goes on with the next site after the except clause.
next_after_except_break(k) == Len(sites) + 1

next_after_except(k) == k + 1

\* A finally clause that is skipped when the try block raised.
live_after_finally_on_success(raised, n) == IF raised THEN n ELSE n - 1

\* finally: driver.quit()
live_after_finally(raised, n) == n - 1

\* ------------------------------------------------------------ requests

QueryKeys == {"ISBN", "isbn"}
QueryValues == {""} \cup Isbns
QueryParams == [key : QueryKeys, value : QueryValues]

RECURSIVE SeqsUpTo(_, _)
SeqsUpTo(S, n) ==
    IF n = 0 THEN {<<>>}
    ELSE LET shorter == SeqsUpTo(S, n - 1)
         IN shorter \cup {<<x>> \o q : x \in S, q \in shorter}

\* self.path, split at "?" into the path and the query's parameters.
Requests == [path : {"/", "/favicon.ico"}, query : SeqsUpTo(QueryParams, MaxParams)]

IsIsbnParam(p) == p.key = "ISBN" /\ p.value # ""

IsIsbnParamAnyCase(p) == p.key \in {"ISBN", "isbn"} /\ p.value # ""

\* A lookup of the parameter that ignores the case of its name.
query_isbn_any_case(query) ==
    LET vals == SelectSeq(query, IsIsbnParamAnyCase)
    IN IF Len(vals) = 0 THEN None ELSE Some(vals[1].value)

\* parse_qs(query).get('ISBN', [None])[0]; parse_qs drops blank values.
query_isbn(query) ==
    LET vals == SelectSeq(query, IsIsbnParam)
    IN IF Len(vals) = 0 THEN None ELSE Some(vals[1].value)

\* self.path == '/favicon.ico'
is_favicon(r) == r.path = "/favicon.ico" /\ r.query = <<>>

\* not isbn
is_falsy(isbn) == ~IsSome(isbn) \/ Val(isbn) = ""

answer(status, body) == [status |-> status, body |-> body]

\* ----------------------------------------------------------------- Init

ScrapeInit ==
    /\ response = None
    /\ i = 1
    /\ url = None
    /\ driver = "none"
    /\ html = None
    /\ exc = FALSE
    /\ fetched = [s \in SiteSet |-> NotVisited]

ServerInit ==
    /\ mode = "boot"
    /\ pc = "idle"
    /\ req = None
    /\ rendered = 0
    /\ sent = None
    /\ served = 0
    /\ files = {}
    /\ live = 0
    /\ adlibris_html = None

\* process_json_files is not running.
TsvOff ==
    /\ t_dir = <<>>
    /\ t_pc = "off"
    /\ t_k = 1
    /\ data_rows = <<>>
    /\ t_out = None

\* process_isbn_file is not running.
BatchOff ==
    /\ b_file = <<>>
    /\ b_pc = "off"
    /\ b_k = 1
    /\ b_events = <<>>

Init ==
    /\ ScrapeInit
    /\ ServerInit
    /\ TsvOff
    /\ BatchOff
    /\ p_site = "ark.no"
    /\ p_page = None
    /\ p_writable = TRUE
    /\ p_out = None

\* -------------------------------------------------------- scrape_book_data

\* The first lines of scrape_book_data: the response dict is created.
scrape_begin(isbn) ==
    /\ response' = Some(initial_response(isbn))
    /\ i' = 1
    /\ url' = None
    /\ driver' = "none"
    /\ html' = None
    /\ exc' = FALSE
    /\ fetched' = [s \in SiteSet |-> NotVisited]
    /\ pc' = "loop"

\* for site_domain, ... in sites.items(): url_builder and the scraper's
\* constructor.
loop_next_site ==
    /\ pc = "loop"
    /\ i <= Len(sites)
    /\ url' = Some(url_builder(sites[i], Val(response).ISBN))
    /\ driver' = "none"
    /\ html' = None
    /\ exc' = FALSE
    /\ pc' = "chrome"
    /\ UNCHANGED <<response, i, fetched, serverVars, live, adlibris_html, parseVars, toolVars>>

\* fetch_html: webdriver.Chrome(...) starts a browser, or raises.
fetch_html_chrome ==
    /\ pc = "chrome"
    /\ \E ok \in BOOLEAN :
         IF ok
         THEN /\ driver' = "live"
              /\ live' = live + 1
              /\ exc' = FALSE
              /\ pc' = "get"
         ELSE /\ driver' = "none"
              /\ live' = live
              /\ exc' = TRUE
              /\ pc' = "except"
    /\ UNCHANGED <<response, i, url, html, fetched, serverVars, adlibris_html, parseVars, toolVars>>

\* fetch_html: driver.get(self.url) loads the page, or raises.
fetch_html_get ==
    /\ pc = "get"
    /\ rendered' = rendered + 1
    /\ \E ok \in BOOLEAN :
         /\ exc' = ~ok
         /\ pc' = IF ok THEN "consent" ELSE "finally"
    /\ UNCHANGED <<response, i, url, driver, html, fetched, mode, req, sent,
                   served, files, live, adlibris_html, parseVars, toolVars>>

\* fetch_html: the cookie consent button is clicked, or the wait times out
\* and the exception is caught.
fetch_html_consent ==
    /\ pc = "consent"
    /\ \E clicked \in BOOLEAN : pc' = "ready"
    /\ UNCHANGED <<scrapeVars, serverVars, live, adlibris_html, parseVars, toolVars>>

\* fetch_html: the wait for <body>, then driver.page_source; the wait may
\* time out.
fetch_html_ready ==
    /\ pc = "ready"
    /\ \/ \E page \in ScrapePages(sites[i]) :
            /\ html' = Some(page)
            /\ exc' = FALSE
       \/ /\ html' = None
          /\ exc' = TRUE
    /\ pc' = "finally"
    /\ UNCHANGED <<response, i, url, driver, fetched, serverVars, live,
                   adlibris_html, parseVars, toolVars>>

\* fetch_html: finally: driver.quit(); then the return or the raise.
fetch_html_finally ==
    /\ pc = "finally"
    /\ driver' = "quit"
    /\ live' = live_after_finally(exc, live)
    /\ pc' = IF exc THEN "except" ELSE "parse"
    /\ UNCHANGED <<response, i, url, html, exc, fetched, serverVars,
                   adlibris_html, parseVars, toolVars>>

\* result = scraper.parse_html(html_content) and the store of its four
\* fields; an exception of parse_html is handled like one of fetch_html.
parse_and_store ==
    /\ pc = "parse"
    /\ \E writable \in (IF sites[i] = "adlibris.no" THEN BOOLEAN ELSE {TRUE}) :
         LET out == parse_html(sites[i], Val(html), writable)
             entry == IF out.raised THEN SENTINEL_ENTRY
                      ELSE site_entry(Val(out.value))
         IN /\ response' = Some([Val(response) EXCEPT
                                   !.SITES = dict_set(@, sites[i], entry)])
            /\ fetched' = [fetched EXCEPT ![sites[i]] =
                             [kind |-> "ok", page |-> html, writable |-> writable]]
            /\ adlibris_html' = IF sites[i] = "adlibris.no" /\ writable
                                THEN html ELSE adlibris_html
    /\ i' = i + 1
    /\ pc' = "loop"
    /\ UNCHANGED <<url, driver, html, exc, serverVars, live, parseVars, toolVars>>

\* except Exception: the all-sentinel entry is stored for the site.
except_store ==
    /\ pc = "except"
    /\ response' = Some([Val(response) EXCEPT
                           !.SITES = dict_set(@, sites[i], SENTINEL_ENTRY)])
    /\ fetched' = [fetched EXCEPT ![sites[i]] =
                     [kind |-> "fail", page |-> None, writable |-> TRUE]]
    /\ i' = next_after_except(i)
    /\ pc' = "loop"
    /\ UNCHANGED <<url, driver, html, exc, serverVars, live, adlibris_html, parseVars, toolVars>>

\* After the loop: MESSAGE and TIMESTAMP are set and response is returned.
scrape_return ==
    /\ pc = "loop"
    /\ i > Len(sites)
    /\ \E t \in 0..MaxTime : response' = Some(complete_response(Val(response), t))
    /\ pc' = "return"
    /\ UNCHANGED <<i, url, driver, html, exc, fetched, serverVars, live,
                   adlibris_html, parseVars, toolVars>>

\* ------------------------------------------------------------- __main__

\* if args.isbn: scrape_book_data(args.isbn) ... else: run_server(args.port)
main(arg) ==
    /\ mode = "boot"
    /\ IF ~is_falsy(arg)
       THEN /\ mode' = "cli"
            /\ scrape_begin(Val(arg))
       ELSE /\ mode' = "server"
            /\ pc' = "idle"
            /\ UNCHANGED scrapeVars
    /\ UNCHANGED <<req, rendered, sent, served, files, live, adlibris_html, parseVars, toolVars>>

\* save_to_json(data, args.isbn) and the print, after scrape_book_data.
main_save ==
    /\ mode = "cli"
    /\ pc = "return"
    /\ files' = files \cup {[isbn |-> Val(response).ISBN, data |-> Val(response)]}
    /\ mode' = "exit"
    /\ pc' = "idle"
    /\ UNCHANGED <<scrapeVars, req, rendered, sent, served, live, adlibris_html, parseVars, toolVars>>

\* ---------------------------------------------------------------- do_GET

\* RequestHandler.do_GET up to its first answer or to the call of
\* scrape_book_data.
do_GET(r) ==
    /\ mode = "server"
    /\ pc = "idle"
    /\ served < MaxRequests
    /\ served' = served + 1
    /\ req' = Some(r)
    /\ rendered' = 0
    /\ IF is_favicon(r)
       THEN /\ sent' = Some(answer(204, None))
            /\ pc' = "idle"
            /\ UNCHANGED scrapeVars
       ELSE IF is_falsy(query_isbn(r.query))
       THEN /\ sent' = Some(answer(400, None))
            /\ pc' = "idle"
            /\ UNCHANGED scrapeVars
       ELSE /\ sent' = None
            /\ scrape_begin(Val(query_isbn(r.query)))
    /\ UNCHANGED <<mode, files, live, adlibris_html, parseVars, toolVars>>

\* do_GET after scrape_book_data returned: 200 and the JSON body, or 500
\* when writing the answer raises; the locals of the call are gone.
do_GET_respond ==
    /\ mode = "server"
    /\ pc = "return"
    /\ \E ok \in BOOLEAN :
         sent' = IF ok THEN Some(answer(200, response))
                 ELSE Some(answer(500, None))
    /\ pc' = "idle"
    /\ response' = None
    /\ i' = 1
    /\ url' = None
    /\ driver' = "none"
    /\ html' = None
    /\ exc' = FALSE
    /\ fetched' = [s \in SiteSet |-> NotVisited]
    /\ UNCHANGED <<mode, req, rendered, served, files, live, adlibris_html, parseVars, toolVars>>

Next ==
    \/ \E arg \in Opt({""} \cup CliIsbns) : main(arg)
    \/ main_save
    \/ \E r \in Requests : do_GET(r)
    \/ do_GET_respond
    \/ loop_next_site
    \/ fetch_html_chrome
    \/ fetch_html_get
    \/ fetch_html_consent
    \/ fetch_html_ready
    \/ fetch_html_finally
    \/ parse_and_store
    \/ except_store
    \/ scrape_return

Spec == Init /\ [][Next]_vars

\* ------------------------------------------------ parse_html on its own

ParseInputs ==
    {[site |-> "ark.no", page |-> p, writable |-> TRUE] : p \in ArkParsePages}
    \cup {[site |-> "norli.no", page |-> p, writable |-> TRUE] : p \in NorliParsePages}
    \cup {[site |-> "adlibris.no", page |-> p, writable |-> w] :
             p \in AdlibrisParsePages, w \in BOOLEAN}

InitParse ==
    /\ ScrapeInit
    /\ ServerInit
    /\ TsvOff
    /\ BatchOff
    /\ p_out = None
    /\ \E inp \in ParseInputs :
         /\ p_site = inp.site
         /\ p_page = Some(inp.page)
         /\ p_writable = inp.writable

ArkScraper_parse_html ==
    /\ p_site = "ark.no"
    /\ p_out = None
    /\ p_out' = Some(ArkParseHtml(Val(p_page)))
    /\ UNCHANGED <<scrapeVars, serverVars, pc, live, adlibris_html,
                   p_site, p_page, p_writable, toolVars>>

NorliScraper_parse_html ==
    /\ p_site = "norli.no"
    /\ p_out = None
    /\ p_out' = Some(NorliParseHtml(Val(p_page)))
    /\ UNCHANGED <<scrapeVars, serverVars, pc, live, adlibris_html,
                   p_site, p_page, p_writable, toolVars>>

AdlibrisScraper_parse_html ==
    /\ p_site = "adlibris.no"
    /\ p_out = None
    /\ p_out' = Some(AdlibrisParseHtml(Val(p_page), p_writable))
    /\ adlibris_html' = IF p_writable THEN p_page ELSE adlibris_html
    /\ UNCHANGED <<scrapeVars, serverVars, pc, live, p_site, p_page, p_writable, toolVars>>

NextParse ==
    \/ ArkScraper_parse_html
    \/ NorliScraper_parse_html
    \/ AdlibrisScraper_parse_html

SpecParse == InitParse /\ [][NextParse]_vars

\* ---------------------------------------------------------------- claims

ResultFields == {"title", "authors", "PRICE", "PRODUCT_URL"}
EntryFields == {"TITLE", "AUTHORS", "PRICE", "PRODUCT_URL"}
RecordFields == {"MESSAGE", "ISBN", "TIMESTAMP", "SITES"}

Returned == pc = "return"

\* C1: when scrape_book_data returns, every registered site was visited and
\* SITES has exactly one entry per site: the all-sentinel entry where
\* fetch_html failed, the adapter's parse_html result where it succeeded.
C1_SiteFailureIsolated ==
    Returned =>
        /\ DOMAIN Val(response).SITES = SiteSet
        /\ \A s \in SiteSet :
             /\ fetched[s].kind \in {"ok", "fail"}
             /\ fetched[s].kind = "fail" => Val(response).SITES[s] = SENTINEL_ENTRY
             /\ fetched[s].kind = "ok" =>
                  Val(response).SITES[s] =
                      site_entry(Val(parse_html(s, Val(fetched[s].page),
                                                fetched[s].writable).value))

\* The first site's render failed and a later site was still scraped with a
\* real result.
C1_Witness ==
    /\ Returned
    /\ fetched["ark.no"].kind = "fail"
    /\ fetched["norli.no"].kind = "ok"
    /\ Val(response).SITES["norli.no"] # SENTINEL_ENTRY
    /\ fetched["adlibris.no"].kind = "fail"

\* The try block of the adapter called on its own.
TryOfCall ==
    CASE p_site = "ark.no" -> ArkTry(Val(p_page))
      [] p_site = "norli.no" -> NorliTry(Val(p_page))
      [] p_site = "adlibris.no" -> AdlibrisTry(Val(p_page), p_writable)

Called == IsSome(p_out)
Out == Val(Val(p_out).value)

\* C2: parse_html of each adapter never raises and returns a result with
\* the four fields, the price a number and the URL never empty; when a
\* lookup inside it raises, the result is the all-sentinel result.
C2_ParseNeverRaises ==
    Called =>
        /\ ~Val(p_out).raised
        /\ IsSome(Val(p_out).value)
        /\ DOMAIN Out = ResultFields
        /\ Out.PRICE \in Nat
        /\ Out.PRODUCT_URL # <<>>
        /\ TryOfCall.raised => Out = SENTINEL

\* A lookup raised inside NorliScraper.parse_html (KeyError) and the call
\* returned the all-sentinel result.
C2_Witness ==
    /\ Called
    /\ p_site = "norli.no"
    /\ NorliTry(Val(p_page)).raised
    /\ ~Val(p_out).raised
    /\ Out = SENTINEL

RECURSIVE longest_title(_, _, _)
\* Fold over the sites in registry order, keeping the strictly longer title.
longest_title(entries, k, best) ==
    IF k > Len(sites) THEN best
    ELSE LET t == entries[sites[k]].TITLE
         IN longest_title(entries, k + 1,
                          IF t # DASH /\ Len(t) > Len(best) THEN t ELSE best)

\* C3: the returned record carries a top-level title, the longest
\* non-sentinel title of the per-site results (first in registry order on
\* a tie).
C3_TopLevelTitle ==
    Returned =>
        /\ "TITLE" \in DOMAIN Val(response)
        /\ Val(response)["TITLE"] = longest_title(Val(response).SITES, 1, <<>>)

RECURSIVE split_comma(_, _)
\* The comma-separated parts of a text, each stripped of whitespace.
split_comma(s, part) ==
    IF Len(s) = 0 THEN {str_strip(part)}
    ELSE IF Head(s) = "," THEN {str_strip(part)} \cup split_comma(Tail(s), <<>>)
    ELSE split_comma(Tail(s), Append(part, Head(s)))

site_author_names(entries) ==
    UNION {split_comma(entries[s].AUTHORS, <<>>) :
              s \in {x \in DOMAIN entries : entries[x].AUTHORS # DASH}}

\* C4: the returned record carries a top-level authors value whose names
\* are exactly the deduplicated union of the per-site author names.
C4_TopLevelAuthors ==
    Returned =>
        /\ "AUTHORS" \in DOMAIN Val(response)
        /\ LET names == split_comma(Val(response)["AUTHORS"], <<>>) \ {<<>>}
           IN names = site_author_names(Val(response).SITES)

\* C5: a page whose result count is not exactly one gives the all-sentinel
\* result, for every adapter.
C5_OnlyExactlyOneResult ==
    (Called /\ Val(p_page).results # 1) => Out = SENTINEL

\* The precondition of the adapter called on its own.
PreconditionOfCall ==
    CASE p_site = "ark.no" -> ArkPrecondition(Val(p_page))
      [] p_site = "norli.no" -> NorliPrecondition(Val(p_page))
      [] p_site = "adlibris.no" -> AdlibrisPrecondition(Val(p_page))

\* The price text with ",-" and surrounding whitespace removed, as an
\* integer when only decimal digits remain, and 0 otherwise.
normalized_price(text) ==
    LET t == str_strip(str_remove(str_strip(text), COMMA_DASH))
    IN IF Len(t) > 0 /\ \A k \in 1..Len(t) : t[k] \in DecimalDigit
       THEN int_value(t) ELSE 0

\* What each field is expected to be from its own element alone: None when
\* the element (or the attribute) the adapter reads it from is missing.
ArkExpected(page) ==
    [title |-> IF IsSome(page.h3) THEN Some(str_strip(Val(page.h3))) ELSE None,
     authors |-> IF IsSome(page.authors_div)
                 THEN Some(str_strip(Val(page.authors_div))) ELSE None,
     PRICE |-> IF IsSome(page.price_span)
               THEN Some(normalized_price(Val(page.price_span))) ELSE None,
     PRODUCT_URL |-> IF /\ IsSome(page.price_span)
                        /\ IsSome(page.next_link)
                        /\ IsSome(Val(page.next_link).href)
                     THEN Some(ARK_ORIGIN \o Val(Val(page.next_link).href))
                     ELSE None]

NorliExpected(page) ==
    LET a == IF IsSome(page.product_div) THEN Val(page.product_div).a ELSE None
    IN [title |-> IF IsSome(a) /\ IsSome(Val(a).aria_label)
                  THEN Some(Val(Val(a).aria_label)) ELSE None,
        authors |-> IF IsSome(page.authors_div)
                    THEN Some(str_strip(Val(page.authors_div))) ELSE None,
        PRICE |-> IF IsSome(page.price_span)
                  THEN Some(normalized_price(Val(page.price_span))) ELSE None,
        PRODUCT_URL |-> IF IsSome(a) /\ IsSome(Val(a).href)
                        THEN Some(NORLI_ORIGIN \o Val(Val(a).href)) ELSE None]

AdlibrisExpected(page) ==
    LET w == page.product_wrapper
        l == IF IsSome(w) THEN Val(w).title_link ELSE None
    IN [title |-> IF IsSome(l) THEN Some(join_split(Val(l).text)) ELSE None,
        authors |-> IF IsSome(w) /\ IsSome(Val(w).author_link)
                    THEN Some(join_split(Val(Val(w).author_link))) ELSE None,
        PRICE |-> IF /\ IsSome(w)
                     /\ IsSome(Val(w).price_div)
                     /\ IsSome(Val(Val(w).price_div).span)
                  THEN Some(normalized_price(Val(Val(Val(w).price_div).span)))
                  ELSE None,
        PRODUCT_URL |-> IF IsSome(l) /\ IsSome(Val(l).href)
                        THEN Some(ADLIBRIS_ORIGIN \o Val(Val(l).href)) ELSE None]

ExpectedOfCall ==
    CASE p_site = "ark.no" -> ArkExpected(Val(p_page))
      [] p_site = "norli.no" -> NorliExpected(Val(p_page))
      [] p_site = "adlibris.no" -> AdlibrisExpected(Val(p_page))

FieldSentinel(f) == IF f = "PRICE" THEN 0 ELSE DASH

\* int() raises on the price text of the page (a digit character that is
\* not a decimal digit).
PriceRaisesOfCall ==
    CASE p_site = "ark.no" -> price_to_int(ArkPriceText(Val(p_page))).raised
      [] p_site = "norli.no" -> price_to_int(NorliPriceText(Val(p_page))).raised
      [] p_site = "adlibris.no" ->
           /\ IsSome(Val(p_page).product_wrapper)
           /\ price_to_int(AdlibrisPriceText(Val(Val(p_page).product_wrapper))).raised

\* C6: on a page that passes the precondition, every field whose element
\* is present is extracted with its real value, whatever other element is
\* missing; a field whose element is missing is its sentinel.
C6_MissingElementOnlyItsField ==
    (Called /\ PreconditionOfCall /\ p_writable /\ ~PriceRaisesOfCall) =>
        \A f \in ResultFields :
            Out[f] = IF IsSome(ExpectedOfCall[f])
                     THEN Val(ExpectedOfCall[f])
                     ELSE FieldSentinel(f)

\* C7: on a page that passes the precondition and has all its elements,
\* PRICE is the normalized price of the price text, and the other fields
\* are extracted whatever the price text is.
C7_PriceNormalization ==
    (Called /\ PreconditionOfCall /\ p_writable
        /\ \A f \in ResultFields : IsSome(ExpectedOfCall[f])) =>
        \A f \in ResultFields : Out[f] = Val(ExpectedOfCall[f])

\* C8: a returned record has MESSAGE "Data fetched successfully", a
\* non-empty TIMESTAMP and the complete shape, whatever failed; so has
\* every record answered or saved.
CompleteRecord(r) ==
    /\ DOMAIN r = RecordFields
    /\ r.MESSAGE = "Data fetched successfully"
    /\ r.TIMESTAMP # <<>>
    /\ DOMAIN r.SITES = SiteSet
    /\ \A s \in SiteSet : DOMAIN r.SITES[s] = EntryFields

NoIsbn(r) == ~\E k \in 1..Len(r.query) : r.query[k].key = "ISBN" /\ r.query[k].value # ""

NothingScraped == rendered = 0 /\ response = None /\ pc = "idle" /\ live = 0

\* C9 as stated: every request without an ISBN is answered 400, and
\* nothing is rendered and no record produced.
C9_NoIsbnAnswered400 ==
    (IsSome(req) /\ NoIsbn(Val(req))) =>
        /\ sent = Some(answer(400, None))
        /\ NothingScraped

\* C9 amended: a request without an ISBN is answered 400, or 204 when it
\* is the request for /favicon.ico, and nothing is rendered and no record
\* produced; a record exists only for a non-empty ISBN.
C9_NoIsbnFailsFast ==
    /\ (IsSome(req) /\ NoIsbn(Val(req))) =>
          /\ sent = Some(answer(IF is_favicon(Val(req)) THEN 204 ELSE 400, None))
          /\ NothingScraped
    /\ IsSome(response) =>
          /\ Val(response).ISBN # ""
          /\ mode = "server" => (IsSome(req) /\ ~NoIsbn(Val(req)))
    /\ (IsSome(sent) /\ IsSome(Val(sent).body)) => ~NoIsbn(Val(req))
    /\ mode = "server" /\ ~IsSome(req) => response = None

\* A second request, without an ISBN, was answered 400 after a first one
\* had been scraped.
C9_Witness ==
    /\ served = 2
    /\ IsSome(req)
    /\ NoIsbn(Val(req))
    /\ ~is_favicon(Val(req))
    /\ sent = Some(answer(400, None))
    /\ adlibris_html # None

\* C10: a browser is live only inside fetch_html, between the start of the
\* browser and the finally clause; never more than one, and none between
\* two site scrapes or after scrape_book_data returned.
C10_BrowserReleased ==
    /\ live \in {0, 1}
    /\ live = 1 => (driver = "live" /\ pc \in {"get", "consent", "ready", "finally"})
    /\ pc \in {"idle", "loop", "chrome", "parse", "except", "return"} => live = 0

\* fetch_html raised after the browser was started (navigation failure or
\* readiness timeout) and the browser is released.
C10_Witness ==
    /\ pc = "except"
    /\ driver = "quit"
    /\ exc
    /\ live = 0

\* The entry the scrape of site s gave, from what its render returned.
entry_of_fetch(s) ==
    IF fetched[s].kind = "fail" THEN SENTINEL_ENTRY
    ELSE site_entry(Val(parse_html(s, Val(fetched[s].page), fetched[s].writable).value))

\* Sites whose turn in the loop is over.
SitesDone == {sites[k] : k \in 1..(i - 1)}

\* C12: sites are processed one at a time in registration order: while the
\* loop is at site i, exactly the sites before it have been rendered and
\* have their SITES entry, each entry is still the one its own scrape gave,
\* no render of site i or later is counted before its turn, at most one
\* browser is live, and the server takes no request while one is running.
C12_StrictlySequential ==
    /\ live <= 1
    /\ IsSome(response) =>
          /\ DOMAIN Val(response).SITES = SitesDone
          /\ \A s \in SiteSet : (fetched[s].kind # "none") <=> (s \in SitesDone)
          /\ \A s \in SitesDone : Val(response).SITES[s] = entry_of_fetch(s)
          /\ rendered <= (IF pc \in {"loop", "chrome", "get"} THEN i - 1 ELSE i)
          /\ pc \in {"chrome", "get", "consent", "ready", "finally", "parse", "except"}
                => i <= Len(sites)
    /\ (mode = "server" /\ pc # "idle") =>
          /\ IsSome(req)
          /\ sent = None
          /\ IsSome(response)

\* In the second request served, norli.no is being rendered after ark.no
\* was scraped with a real result and its entry written.
C12_Witness ==
    /\ served = 2
    /\ pc = "ready"
    /\ i = 2
    /\ rendered = 2
    /\ live = 1
    /\ DOMAIN Val(response).SITES = {"ark.no"}
    /\ Val(response).SITES["ark.no"] # SENTINEL_ENTRY
    /\ adlibris_html # None

\* ------------------------------------------------- tsv.py: bounds, values

\* Number of entries of the directory process_json_files reads.
MaxDocs == 2

\* JSON values as json.load returns them.
JStr(text) == [t |-> "str", v |-> text]
JInt(n) == [t |-> "int", v |-> <<n>>]
JNull == [t |-> "null", v |-> <<>>]
JArray == [t |-> "list", v |-> <<>>]
JObject(f) == [t |-> "dict", v |-> f]

\* {}
EmptyObject == JObject([k \in {} |-> JNull])

\* d.get(key, default) on a dict; any other value has no attribute get.
json_get(d, key, default) ==
    IF d.t # "dict" THEN Raise
    ELSE IF key \in DOMAIN d.v THEN Return(d.v[key])
    ELSE Return(default)

headers ==
    <<"ISBN", "ARK_TITLE", "ARK_PRICE", "ARK_URL",
      "NORLI_TITLE", "NORLI_PRICE", "NORLI_URL",
      "ADLIBRIS_TITLE", "ADLIBRIS_PRICE", "ADLIBRIS_URL", "TIMESTAMP">>

\* The three cells read from sites.get(site, {}).
tsv_site_cells(sites_value, site) ==
    LET site_data == json_get(sites_value, site, EmptyObject)
    IN IF site_data.raised THEN Raise
       ELSE LET title == json_get(Val(site_data.value), "TITLE", JStr(<<>>))
                price == json_get(Val(site_data.value), "PRICE", JStr(<<>>))
                link == json_get(Val(site_data.value), "PRODUCT_URL", JStr(<<>>))
            IN IF title.raised \/ price.raised \/ link.raised THEN Raise
               ELSE Return(<<Val(title.value), Val(price.value), Val(link.value)>>)

\* The statements of the try block after json.load: the row of one document.
tsv_row(data) ==
    LET isbn == json_get(data, "ISBN", JStr(<<>>))
        timestamp == json_get(data, "TIMESTAMP", JStr(<<>>))
        site_values == json_get(data, "SITES", EmptyObject)
    IN IF isbn.raised \/ timestamp.raised \/ site_values.raised THEN Raise
       ELSE LET ark == tsv_site_cells(Val(site_values.value), "ark.no")
                norli == tsv_site_cells(Val(site_values.value), "norli.no")
                adlibris == tsv_site_cells(Val(site_values.value), "adlibris.no")
            IN IF ark.raised \/ norli.raised \/ adlibris.raised THEN Raise
               ELSE Return(<<Val(isbn.value)>> \o Val(ark.value) \o Val(norli.value)
                           \o Val(adlibris.value) \o <<Val(timestamp.value)>>)

\* The text csv.writer writes for a cell: a str as it is, a number by str().
csv_cell(value) ==
    CASE value.t = "str" -> value.v
      [] value.t = "int" -> DigitsOf(value.v[1])
      [] value.t = "null" -> <<>>

csv_row(row) == [c \in 1..Len(row) |-> csv_cell(row[c])]

csv_rows(rows) == [r \in 1..Len(rows) |-> csv_row(rows[r])]

\* ------------------------------------------------------ tsv.py: documents

TsvEntryFull ==
    JObject([TITLE |-> JStr(T_Foo), AUTHORS |-> JStr(A_John), PRICE |-> JInt(349),
             PRODUCT_URL |-> JStr(<<"https://www.ark.no", "/p/1">>)])

TsvEntryPriceOnly == JObject([PRICE |-> JInt(0)])

TsvSitesValues ==
    {EmptyObject,
     JObject([s \in {"ark.no"} |-> TsvEntryFull]),
     JObject([s \in {"norli.no", "adlibris.no"} |->
                 IF s = "norli.no" THEN TsvEntryPriceOnly ELSE TsvEntryFull]),
     JObject([s \in {"ark.no"} |-> JNull]),
     JNull}

\* The objects a document may hold: each top-level key present or missing.
TsvObjects ==
    {JObject([k \in keys |->
                 CASE k = "ISBN" -> JStr(<<"9788202">>)
                   [] k = "TIMESTAMP" -> JStr(strftime(0))
                   [] k = "SITES" -> sv]) :
        keys \in SUBSET {"ISBN", "TIMESTAMP", "SITES"}, sv \in TsvSitesValues}

\* A directory entry: whether its name ends with ".json", whether json.load
\* parses its content, and the parsed value.
TsvEntries ==
    {[json |-> TRUE, parses |-> TRUE, data |-> d] : d \in TsvObjects \cup {JArray}}
    \cup {[json |-> TRUE, parses |-> FALSE, data |-> JNull],
          [json |-> FALSE, parses |-> FALSE, data |-> JNull]}

\* ------------------------------------------------- process_json_files

InitTsv ==
    /\ ScrapeInit
    /\ ServerInit
    /\ BatchOff
    /\ p_site = "ark.no"
    /\ p_page = None
    /\ p_writable = TRUE
    /\ p_out = None
    /\ t_dir \in SeqsUpTo(TsvEntries, MaxDocs)
    /\ t_pc = "loop"
    /\ t_k = 1
    /\ data_rows = <<>>
    /\ t_out = None

\* One turn of the loop over os.listdir(directory) for an entry that gives
\* no row: the name does not end with ".json", or json.load raises
\* JSONDecodeError and the diagnostic is printed.
tsv_skip_entry ==
    /\ t_pc = "loop"
    /\ t_k <= Len(t_dir)
    /\ ~t_dir[t_k].json \/ ~t_dir[t_k].parses
    /\ t_k' = t_k + 1
    /\ UNCHANGED <<t_dir, t_pc, data_rows, t_out>>
    /\ UNCHANGED <<scrapeVars, serverVars, pc, live, adlibris_html, parseVars, batchVars>>

\* One turn of the loop for a document json.load parses: its row is
\* appended, or an exception that is neither JSONDecodeError nor KeyError
\* leaves process_json_files.
tsv_load_entry ==
    /\ t_pc = "loop"
    /\ t_k <= Len(t_dir)
    /\ t_dir[t_k].json /\ t_dir[t_k].parses
    /\ LET row == tsv_row(t_dir[t_k].data)
       IN IF row.raised
          THEN /\ t_pc' = "crashed"
               /\ UNCHANGED <<t_k, data_rows>>
          ELSE /\ data_rows' = Append(data_rows, Val(row.value))
               /\ t_k' = t_k + 1
               /\ UNCHANGED t_pc
    /\ UNCHANGED <<t_dir, t_out>>
    /\ UNCHANGED <<scrapeVars, serverVars, pc, live, adlibris_html, parseVars, batchVars>>

\* After the loop: the header row and data_rows are written to output_file.
tsv_write ==
    /\ t_pc = "loop"
    /\ t_k > Len(t_dir)
    /\ t_out' = Some(<<headers>> \o csv_rows(data_rows))
    /\ t_pc' = "done"
    /\ UNCHANGED <<t_dir, t_k, data_rows>>
    /\ UNCHANGED <<scrapeVars, serverVars, pc, live, adlibris_html, parseVars, batchVars>>

NextTsv ==
    \/ tsv_skip_entry
    \/ tsv_load_entry
    \/ tsv_write

SpecTsv == InitTsv /\ [][NextTsv]_vars

\* A directory entry that gives no row: not a .json name, or malformed.
TsvSkippable(e) == ~e.json \/ ~e.parses

\* A document that reads as a record: an object whose SITES, when present,
\* is an object of objects.
TsvRecord(e) ==
    /\ e.json
    /\ e.parses
    /\ e.data.t = "dict"
    /\ "SITES" \in DOMAIN e.data.v =>
          /\ e.data.v["SITES"].t = "dict"
          /\ \A s \in DOMAIN e.data.v["SITES"].v : e.data.v["SITES"].v[s].t = "dict"

\* The cell of a key: its value as text, the empty string when it is missing.
cell_or_empty(object, key) ==
    IF key \in DOMAIN object.v THEN csv_cell(object.v[key]) ELSE <<>>

expected_site_cells(data, s) ==
    LET entry == IF "SITES" \in DOMAIN data.v /\ s \in DOMAIN data.v["SITES"].v
                 THEN data.v["SITES"].v[s] ELSE EmptyObject
    IN <<cell_or_empty(entry, "TITLE"), cell_or_empty(entry, "PRICE"),
         cell_or_empty(entry, "PRODUCT_URL")>>

expected_row(data) ==
    <<cell_or_empty(data, "ISBN")>>
    \o expected_site_cells(data, "ark.no")
    \o expected_site_cells(data, "norli.no")
    \o expected_site_cells(data, "adlibris.no")
    \o <<cell_or_empty(data, "TIMESTAMP")>>

expected_rows ==
    LET records == SelectSeq(t_dir, TsvRecord)
    IN [r \in 1..Len(records) |-> expected_row(records[r].data)]

TsvFinished == t_pc \in {"done", "crashed"}

\* C11: process_json_files completes and writes the table for any set of
\* documents: the header row, the row of every document that reads as a
\* record (empty cells for missing keys), and, when every other document is
\* malformed or not a .json file, exactly those rows in directory order.
C11_ExportCompletes ==
    TsvFinished =>
        /\ t_pc = "done"
        /\ IsSome(t_out)
        /\ Head(Val(t_out)) = headers
        /\ LET rows == Tail(Val(t_out))
           IN /\ \A k \in 1..Len(t_dir) :
                    TsvRecord(t_dir[k]) =>
                        \E r \in 1..Len(rows) : rows[r] = expected_row(t_dir[k].data)
              /\ (\A k \in 1..Len(t_dir) :
                     TsvRecord(t_dir[k]) \/ TsvSkippable(t_dir[k]))
                 => rows = expected_rows

\* ------------------------------------------------------------ batch.py

\* Number of lines of the ISBN file.
MaxLines == 3

\* Lines of the ISBN file, without their newline.
BatchLines == {<<>>, <<" ">>, <<"9788202">>, <<" ", "9788203", " ">>}

\* Exit statuses of "python api/index.py --isbn <isbn> --verbose".
ExitStatuses == {0, 1}

run_event(isbn, status) == [kind |-> "run", isbn |-> isbn, status |-> status]
sleep_event == [kind |-> "sleep", isbn |-> <<>>, status |-> 0]

\* A loop that stops at the first failed run.
next_line_after_error_break(k) == Len(b_file) + 1

\* except subprocess.CalledProcessError: the message is printed and the loop
\* goes on with the next line.
next_line_after_error(k) == k + 1

InitBatch ==
    /\ ScrapeInit
    /\ ServerInit
    /\ TsvOff
    /\ p_site = "ark.no"
    /\ p_page = None
    /\ p_writable = TRUE
    /\ p_out = None
    /\ b_file \in SeqsUpTo(BatchLines, MaxLines)
    /\ b_pc = "loop"
    /\ b_k = 1
    /\ b_events = <<>>

\* One turn of the loop for a line that is empty once stripped.
batch_blank_line ==
    /\ b_pc = "loop"
    /\ b_k <= Len(b_file)
    /\ str_strip(b_file[b_k]) = <<>>
    /\ b_k' = b_k + 1
    /\ UNCHANGED <<b_file, b_pc, b_events>>
    /\ UNCHANGED <<scrapeVars, serverVars, pc, live, adlibris_html, parseVars, tsvVars>>

\* One turn of the loop for an ISBN: subprocess.run(command, check=True),
\* then the message and time.sleep after exit status 0, or the except
\* clause after another status.
batch_isbn_line ==
    /\ b_pc = "loop"
    /\ b_k <= Len(b_file)
    /\ str_strip(b_file[b_k]) # <<>>
    /\ \E status \in ExitStatuses :
         LET isbn_value == str_strip(b_file[b_k])
         IN IF status = 0
            THEN /\ b_events' = b_events \o <<run_event(isbn_value, status), sleep_event>>
                 /\ b_k' = b_k + 1
            ELSE /\ b_events' = Append(b_events, run_event(isbn_value, status))
                 /\ b_k' = next_line_after_error(b_k)
    /\ UNCHANGED <<b_file, b_pc>>
    /\ UNCHANGED <<scrapeVars, serverVars, pc, live, adlibris_html, parseVars, tsvVars>>

\* The file is exhausted and process_isbn_file returns.
batch_return ==
    /\ b_pc = "loop"
    /\ b_k > Len(b_file)
    /\ b_pc' = "done"
    /\ UNCHANGED <<b_file, b_k, b_events>>
    /\ UNCHANGED <<scrapeVars, serverVars, pc, live, adlibris_html, parseVars, tsvVars>>

NextBatch ==
    \/ batch_blank_line
    \/ batch_isbn_line
    \/ batch_return

SpecBatch == InitBatch /\ [][NextBatch]_vars

\* A line with nothing but whitespace.
BlankLine(line) == \A j \in 1..Len(line) : IsSpace(line[j])

IsRun(e) == e.kind = "run"
NonBlank(line) == ~BlankLine(line)

\* The ISBNs of the runs started so far, in the order they were started.
started_isbns ==
    LET runs == SelectSeq(b_events, IsRun)
    IN [r \in 1..Len(runs) |-> runs[r].isbn]

\* The ISBNs of the non-blank lines among the first n lines, in file order.
isbns_of_lines(n) ==
    LET lines == SelectSeq(SubSeq(b_file, 1, n), NonBlank)
    IN [r \in 1..Len(lines) |-> str_strip(lines[r])]

\* C13: the runs started are exactly one per non-blank line the loop has
\* passed, in file order, whatever their exit statuses; when the function
\* returns every line has been passed; and a sleep is taken right after
\* every successful run and at no other time.
C13_BatchRunsEveryLine ==
    /\ b_k <= Len(b_file) + 1
    /\ started_isbns = isbns_of_lines(b_k - 1)
    /\ b_pc = "done" => started_isbns = isbns_of_lines(Len(b_file))
    /\ \A e \in 1..Len(b_events) :
          /\ b_events[e].kind = "sleep" =>
                (e > 1 /\ b_events[e - 1].kind = "run" /\ b_events[e - 1].status = 0)
          /\ (b_events[e].kind = "run" /\ b_events[e].status = 0) =>
                (e < Len(b_events) /\ b_events[e + 1].kind = "sleep")
          /\ (b_events[e].kind = "run" /\ b_events[e].status # 0) =>
                (e = Len(b_events) \/ b_events[e + 1].kind = "run")

\* A file with a blank line: the first run failed, no sleep followed it, and
\* the later ISBN was still run.
C13_Witness ==
    /\ b_pc = "done"
    /\ Len(b_file) = 3
    /\ \E k \in 1..3 : BlankLine(b_file[k])
    /\ Len(b_events) = 3
    /\ b_events[1].kind = "run" /\ b_events[1].status = 1
    /\ b_events[2].kind = "run" /\ b_events[2].status = 0
    /\ b_events[3].kind = "sleep"

====
